---- MODULE Spec2Model ----
(***************************************************************************)
(* Model of src/src/mcp_server.py: the bridge between Paperless-ngx (the   *)
(* document API), n8n (the workflow API) and the resource/tool interface.  *)
(*                                                                         *)
(* Python values are represented as follows.                               *)
(*   str          a sequence of one-character strings, <<"A","b">>         *)
(*   Optional[x]  the set {} for None and {v} for the value v              *)
(*   list         a sequence                                               *)
(*   dict         a record / function from key strings to values; a dict   *)
(*                whose iteration order matters is a sequence of           *)
(*                [key, val] entries in insertion order                    *)
(* Every upstream HTTP request is one atomic step of the upstream service; *)
(* a handler is a sequence of such steps with its local computation        *)
(* attached to the step that precedes it.  Invocations interleave at       *)
(* these requests: the handlers are coroutines whose await points are the  *)
(* upstream calls, and the upstream serves its other clients (a second     *)
(* instance of this server among them) between any two requests.           *)
(* A request that fails leaves the upstream as it was: a PUT is either     *)
(* stored whole or not at all.                                             *)
(***************************************************************************)
EXTENDS Integers, Sequences, FiniteSets, TLC

----------------------------------------------------------------------------
(* Bounds of the model *)

MaxTags == 3       \* length of the upstream tag listing
MaxTextLen == 2    \* length of a document title
NumDocs == 3       \* documents of the upstream store in the listing specifications
MaxResults == 2    \* largest max_results argument

\* The invocations in flight at once.
Procs == {1, 2}

Chars == {"a", "A", "b"}

None == {}
Some(v) == {v}
Val(o) == CHOOSE v \in o : TRUE

\* All sequences over S of length at most n.
SeqsUpTo(S, n) == UNION {[1..k -> S] : k \in 0..n}

\* All orderings (as sequences without repetition) of the finite set S.
Orderings(S) ==
    {s \in [1..Cardinality(S) -> S] : \A i, j \in 1..Cardinality(S) : i # j => s[i] # s[j]}

Range(s) == {s[i] : i \in DOMAIN s}

\* Python s[:n] for a list s: n >= 0 keeps the first n elements, n < 0 drops
\* the last -n elements.
Slice(s, n) ==
    IF n >= 0 THEN SubSeq(s, 1, IF n < Len(s) THEN n ELSE Len(s))
    ELSE SubSeq(s, 1, IF Len(s) + n > 0 THEN Len(s) + n ELSE 0)

----------------------------------------------------------------------------
(* Strings *)

\* str.lower() on the alphabet of the model.
LowerChar(c) == IF c = "A" THEN "a" ELSE c

Lower(s) == [i \in DOMAIN s |-> LowerChar(s[i])]

\* Python `sub in text` for strings: literal substring containment.
Contains(text, sub) ==
    \E i \in 0..(Len(text) - Len(sub)) :
        \A j \in 1..Len(sub) : text[i + j] = sub[j]

----------------------------------------------------------------------------
(* Python truthiness of an Optional argument, as tested by `if x:` *)

\* Optional[int]: None and 0 are falsy.
TruthyInt(o) == o # None /\ Val(o) # 0

\* Optional[str], Optional[list], Optional[dict]: None and the empty value
\* are falsy.
TruthySeq(o) == o # None /\ Val(o) # <<>>

----------------------------------------------------------------------------
(* Tag suggestion, tool_analyze_document *)

\* d[k] = v on a dict kept in insertion order: a key already present keeps
\* its position and takes the new value.
DictSet(d, k, v) ==
    IF \E i \in DOMAIN d : d[i].key = k
    THEN [i \in DOMAIN d |-> IF d[i].key = k THEN [key |-> k, val |-> v] ELSE d[i]]
    ELSE Append(d, [key |-> k, val |-> v])

RECURSIVE TagMappingUpTo(_, _)
TagMappingUpTo(all_tags, n) ==
    IF n = 0 THEN <<>>
    ELSE DictSet(TagMappingUpTo(all_tags, n - 1),
                 Lower(all_tags[n].name), all_tags[n].id)

\* tag_mapping = {tag["name"].lower(): tag["id"] for tag in all_tags}
TagMapping(all_tags) == TagMappingUpTo(all_tags, Len(all_tags))

\* The containment test the wrong way round: the text in the tag name.
TagMatchesReversed(tag_name, document_title, document_content) ==
    \/ Contains(tag_name, Lower(document_title))
    \/ Contains(tag_name, Lower(document_content))

\* tag_name in document_title.lower() or tag_name in document_content.lower()
TagMatches(tag_name, document_title, document_content) ==
    \/ Contains(Lower(document_title), tag_name)
    \/ Contains(Lower(document_content), tag_name)

\* The loop over tag_mapping.items() that appends the matching identifiers.
SuggestedTagIds(all_tags, document_title, document_content) ==
    LET Hit(e) == TagMatches(e.key, document_title, document_content)
        hits == SelectSeq(TagMapping(all_tags), Hit)
    IN  [i \in 1..Len(hits) |-> hits[i].val]

\* [tag["name"] for tag in all_tags if tag["id"] in suggested_tag_ids]
SuggestedTagNames(all_tags, suggested_tag_ids) ==
    LET In(t) == t.id \in Range(suggested_tag_ids)
        sel == SelectSeq(all_tags, In)
    IN  [i \in 1..Len(sel) |-> sel[i].name]

\* The concatenation without the set: current_tags + suggested_tag_ids.
NewTagListsConcat(current_tags, suggested_tag_ids) ==
    {current_tags \o suggested_tag_ids}

\* list(set(current_tags + suggested_tag_ids)): the elements once each, in an
\* order the language leaves open.
NewTagLists(current_tags, suggested_tag_ids) ==
    Orderings(Range(current_tags \o suggested_tag_ids))

----------------------------------------------------------------------------
(* Tag arithmetic, tool_update_document_tags *)

RECURSIVE AddTags(_, _)
\* for tag_id in add_tags: if tag_id not in current_tags: append
AddTags(current_tags, add_tags) ==
    IF add_tags = <<>> THEN current_tags
    ELSE AddTags(IF Head(add_tags) \in Range(current_tags)
                 THEN current_tags
                 ELSE Append(current_tags, Head(add_tags)),
                 Tail(add_tags))

\* [tag_id for tag_id in current_tags if tag_id not in remove_tags]
RemoveTags(current_tags, remove_tags) ==
    LET Keep(t) == t \notin Range(remove_tags)
    IN  SelectSeq(current_tags, Keep)

\* if add_tags: ... (the appends act on the list held by `document`)
AddedTags(current_tags, add_tags) ==
    IF TruthySeq(add_tags) THEN AddTags(current_tags, Val(add_tags)) ELSE current_tags

\* The two blocks in the other order: the removal first, then the appends.
UpdatedTagsRemoveFirst(current_tags, add_tags, remove_tags) ==
    LET kept == IF TruthySeq(remove_tags)
                THEN RemoveTags(current_tags, Val(remove_tags))
                ELSE current_tags
    IN  AddedTags(kept, add_tags)

\* if remove_tags: ...
UpdatedTags(current_tags, add_tags, remove_tags) ==
    LET added == AddedTags(current_tags, add_tags)
    IN  IF TruthySeq(remove_tags) THEN RemoveTags(added, Val(remove_tags)) ELSE added

----------------------------------------------------------------------------
(* Read-modify-write, update_paperless_document *)

\* A deep merge: the tag lists are joined instead of replaced.
MergeDeep(current_doc, update_data) ==
    [k \in DOMAIN current_doc \cup DOMAIN update_data |->
        IF k \in DOMAIN update_data
        THEN IF k = "tags" /\ k \in DOMAIN current_doc
             THEN current_doc[k] \o
                  SelectSeq(update_data[k],
                            LAMBDA t : \A j \in DOMAIN current_doc[k] : current_doc[k][j] # t)
             ELSE update_data[k]
        ELSE current_doc[k]]

\* The merge with the operands the wrong way round: {**update_data, **current_doc}.
MergeCurrentWins(current_doc, update_data) ==
    [k \in DOMAIN current_doc \cup DOMAIN update_data |->
        IF k \in DOMAIN current_doc THEN current_doc[k] ELSE update_data[k]]

\* {**current_doc, **update_data}
Merge(current_doc, update_data) ==
    [k \in DOMAIN current_doc \cup DOMAIN update_data |->
        IF k \in DOMAIN update_data THEN update_data[k] ELSE current_doc[k]]

----------------------------------------------------------------------------
(* Listing and similarity *)

\* The query parameters fetch_paperless_documents sends.
ListParams(query, tag_id, correspondent_id, document_type_id, created_after, created_before, limit) ==
    LET present ==
            {"page_size"}
            \cup (IF TruthySeq(query) THEN {"query"} ELSE {})
            \cup (IF TruthyInt(tag_id) THEN {"tags__id"} ELSE {})
            \cup (IF TruthyInt(correspondent_id) THEN {"correspondent__id"} ELSE {})
            \cup (IF TruthyInt(document_type_id) THEN {"document_type__id"} ELSE {})
            \cup (IF TruthySeq(created_after) THEN {"created__gte"} ELSE {})
            \cup (IF TruthySeq(created_before) THEN {"created__lte"} ELSE {})
    IN  [k \in present |->
            CASE k = "page_size" -> limit
              [] k = "query" -> Val(query)
              [] k = "tags__id" -> Val(tag_id)
              [] k = "correspondent__id" -> Val(correspondent_id)
              [] k = "document_type__id" -> Val(document_type_id)
              [] k = "created__gte" -> Val(created_after)
              [] k = "created__lte" -> Val(created_before)]

\* The cut without the removal of the reference document.
SimilarDocsKeepReference(similar_docs, document_id, max_results) ==
    Slice(similar_docs, max_results)

\* [doc for doc in similar_docs if doc["id"] != document_id][:max_results]
SimilarDocs(similar_docs, document_id, max_results) ==
    LET Other(doc) == doc.id # document_id
    IN  Slice(SelectSeq(similar_docs, Other), max_results)

----------------------------------------------------------------------------
(* State *)

VARIABLES
    store,              \* Paperless-ngx: document id -> stored document
    tagList,            \* Paperless-ngx: the tag listing, in upstream order
    inv,                \* per invocation: the handler's name and arguments
    pc,                 \* per invocation: the next step of its handler
    document,           \* per invocation: local `document` / `reference_doc`
    all_tags,           \* per invocation: local `all_tags`
    suggested_tag_ids,  \* per invocation: local `suggested_tag_ids`
    update_data,        \* per invocation: argument of update_paperless_document
    current_doc,        \* per invocation: local of update_paperless_document
    reqs,               \* per invocation: the upstream requests issued so far
    result              \* per invocation: what the handler returned (or raised)

vars == <<store, tagList, inv, pc, document, all_tags, suggested_tag_ids,
          update_data, current_doc, reqs, result>>

upstream == <<store, tagList>>

Doc(id, title, content, tags, correspondent, document_type) ==
    [id |-> id, title |-> title, content |-> content, tags |-> tags,
     correspondent |-> correspondent, document_type |-> document_type]

NoDoc == Doc(0, <<>>, <<>>, <<>>, None, None)

Tag(id, name) == [id |-> id, name |-> name]

\* The other listings are opaque to the handlers.
Correspondents == <<[id |-> 1, name |-> <<"a">>]>>
DocumentTypes == <<[id |-> 1, name |-> <<"b">>]>>
Workflows == <<[id |-> 1, name |-> <<"a">>]>>

----------------------------------------------------------------------------
(* Exceptions *)

RequestException(detail) == [type |-> "RequestException", detail |-> detail]
HTTPException(detail) == [type |-> "HTTPException", detail |-> detail]

\* `except <clause>` catches the exception types below the clause's class.
Catches(clause, type) == clause = "Exception" \/ clause = type

\* Handlers that catch the transport error only: `except RequestException`.
HandlerExceptNarrow(name) ==
    IF name = "update_paperless_document" THEN "none" ELSE "RequestException"

\* The except clause around the body of each resource and tool handler;
\* update_paperless_document called on its own has no handler around it.
HandlerExcept(name) ==
    IF name = "update_paperless_document" THEN "none" ELSE "Exception"

\* update_paperless_document: `except RequestException` turns a failed PUT
\* into an HTTPException; the HTTPException of the inner fetch passes through.
ThroughUpdate(exc) ==
    IF Catches("RequestException", exc.type)
    THEN HTTPException("Error updating document")
    ELSE exc

\* A failure result that names neither document nor workflow.
FailureBare(i, error) == [success |-> FALSE, error |-> error]

\* A failure result that is the error marker alone, without the collection.
FailureErrorOnly(i, error) ==
    IF i.name \in {"trigger_workflow", "update_document_tags", "analyze_document",
                   "search_similar_documents"}
    THEN [success |-> FALSE, error |-> error]
    ELSE [error |-> error]

\* An except branch that reports success.
FailureAsSuccess(i, error) == [success |-> TRUE, error |-> error]

\* The except branch of each handler: the structured failure result.
Failure(i, error) ==
    CASE i.name = "trigger_workflow" ->
            [success |-> FALSE, error |-> error,
             workflow_id |-> i.workflow_id, document_id |-> i.document_id]
      [] i.name \in {"update_document_tags", "analyze_document"} ->
            [success |-> FALSE, error |-> error, document_id |-> i.document_id]
      [] i.name = "search_similar_documents" ->
            [success |-> FALSE, error |-> error,
             reference_document_id |-> i.document_id]
      [] i.name = "documents" -> [error |-> error, documents |-> <<>>]
      [] i.name = "document" -> [error |-> error, document |-> None]
      [] i.name = "tags" -> [error |-> error, tags |-> <<>>]
      [] i.name = "correspondents" -> [error |-> error, correspondents |-> <<>>]
      [] i.name = "document_types" -> [error |-> error, document_types |-> <<>>]
      [] i.name = "workflows" -> [error |-> error, workflows |-> <<>>]

\* A handler that swallows the exception and stays at the failed request, to
\* issue it again.
RaiseRetry(p, exc) == UNCHANGED <<pc, result>>

\* An exception leaving the try body of invocation p's handler.
Raise(p, exc) ==
    IF Catches(HandlerExcept(inv[p].name), exc.type)
    THEN /\ pc' = [pc EXCEPT ![p] = "done"]
         /\ result' = [result EXCEPT ![p] = Failure(inv[p], exc.detail)]
    ELSE /\ pc' = [pc EXCEPT ![p] = "raised"]
         /\ result' = [result EXCEPT ![p] = exc]

Return(p, value) ==
    /\ pc' = [pc EXCEPT ![p] = "done"]
    /\ result' = [result EXCEPT ![p] = value]

\* One upstream request of invocation p: method, endpoint, the document id of
\* the endpoint (0 when it has none), the body or query sent, whether it
\* succeeded, and the JSON of the response when it did.
Request(p, method, url, id, body, ok, resp) ==
    reqs' = [reqs EXCEPT ![p] =
                Append(@, [method |-> method, url |-> url, id |-> id,
                           body |-> body, ok |-> ok,
                           resp |-> IF ok THEN Some(resp) ELSE None])]

----------------------------------------------------------------------------
(* The upstream services *)

\* GET /documents/{id}/ answers 2xx only for a stored document; any request
\* can fail in transport.
CanFetch(document_id) == document_id \in DOMAIN store

\* The filters of GET /documents/ as Paperless-ngx applies them.
UpstreamMatches(doc, params) ==
    /\ "correspondent__id" \in DOMAIN params =>
            doc.correspondent = Some(params["correspondent__id"])
    /\ "document_type__id" \in DOMAIN params =>
            doc.document_type = Some(params["document_type__id"])
    /\ "tags__id" \in DOMAIN params => params["tags__id"] \in Range(doc.tags)
    /\ "query" \in DOMAIN params =>
            \/ Contains(Lower(doc.title), Lower(params["query"]))
            \/ Contains(Lower(doc.content), Lower(params["query"]))

\* The "results" of GET /documents/: the matching documents in an order of
\* the upstream's choosing, cut to the page size (a page size below 1 is
\* ignored by the upstream, which then uses its default page size).
UpstreamList(params) ==
    LET ids == {d \in DOMAIN store : UpstreamMatches(store[d], params)}
        size == params["page_size"]
        Page(o) == IF size >= 1 THEN Slice(o, size) ELSE o
    IN  {[k \in DOMAIN Page(o) |-> store[Page(o)[k]]] : o \in Orderings(ids)}

----------------------------------------------------------------------------
(* update_paperless_document, lines 262-295 *)

\* current_doc = await fetch_paperless_document(document_id)
update_paperless_document_fetch(p) ==
    /\ pc[p] = "upd_fetch"
    /\ \E ok \in BOOLEAN :
        LET id == inv[p].document_id IN
        /\ ok => CanFetch(id)
        /\ Request(p, "GET", "documents/id", id, None, ok, IF ok THEN store[id] ELSE NoDoc)
        /\ IF ok
           THEN /\ current_doc' = [current_doc EXCEPT ![p] = store[id]]
                /\ pc' = [pc EXCEPT ![p] = "upd_put"]
                /\ UNCHANGED result
           ELSE /\ Raise(p, ThroughUpdate(HTTPException("Error fetching document")))
                /\ UNCHANGED current_doc
    /\ UNCHANGED <<upstream, inv, document, all_tags, suggested_tag_ids, update_data>>

\* What the caller of update_paperless_document returns once the PUT has
\* answered with the stored document.
AfterUpdate(p, updated_doc) ==
    CASE inv[p].name = "update_document_tags" ->
            [success |-> TRUE, document_id |-> inv[p].document_id,
             updated_tags |-> updated_doc.tags,
             message |-> "Tags updated successfully"]
      [] inv[p].name = "analyze_document" ->
            [success |-> TRUE, document_id |-> inv[p].document_id,
             document_title |-> document[p].title,
             suggested_tags |-> SuggestedTagNames(all_tags[p], suggested_tag_ids[p]),
             suggested_tag_ids |-> suggested_tag_ids[p],
             tags_updated |-> inv[p].update_automatically,
             message |-> "Document analyzed successfully"]
      [] inv[p].name = "update_paperless_document" -> updated_doc

\* requests.put(url, json={**current_doc, **update_data}); a PUT the upstream
\* accepts replaces the stored document, a failed one leaves it as it was.
update_paperless_document_put(p) ==
    /\ pc[p] = "upd_put"
    /\ \E ok \in BOOLEAN :
        LET id == inv[p].document_id
            updated_doc == Merge(current_doc[p], update_data[p])
        IN
        /\ ok => CanFetch(id)
        /\ Request(p, "PUT", "documents/id", id, Some(updated_doc), ok, updated_doc)
        /\ IF ok
           THEN /\ store' = [store EXCEPT ![id] = updated_doc]
                /\ Return(p, AfterUpdate(p, updated_doc))
           ELSE /\ Raise(p, ThroughUpdate(RequestException("put failed")))
                /\ UNCHANGED store
    /\ UNCHANGED <<tagList, inv, document, all_tags, suggested_tag_ids, update_data,
                   current_doc>>

----------------------------------------------------------------------------
(* tool_update_document_tags, lines 461-508 *)

\* The fetched document itself, with the new tags, as the update.
TagsUpdateWholeDocument(fetched, current_tags) ==
    [fetched EXCEPT !.tags = current_tags]

\* update_data = {"tags": current_tags}
TagsUpdate(fetched, current_tags) == [tags |-> current_tags]

\* The fetch, the tag arithmetic and the call of update_paperless_document.
tool_update_document_tags(p) ==
    /\ pc[p] = "udt_fetch"
    /\ \E ok \in BOOLEAN :
        LET id == inv[p].document_id IN
        /\ ok => CanFetch(id)
        /\ Request(p, "GET", "documents/id", id, None, ok, IF ok THEN store[id] ELSE NoDoc)
        /\ IF ok
           THEN /\ document' = [document EXCEPT ![p] =
                        [store[id] EXCEPT !.tags = AddedTags(@, inv[p].add_tags)]]
                /\ update_data' = [update_data EXCEPT ![p] =
                        TagsUpdate(store[id],
                                   UpdatedTags(store[id].tags, inv[p].add_tags,
                                               inv[p].remove_tags))]
                /\ pc' = [pc EXCEPT ![p] = "upd_fetch"]
                /\ UNCHANGED result
           ELSE /\ Raise(p, HTTPException("Error fetching document"))
                /\ UNCHANGED <<document, update_data>>
    /\ UNCHANGED <<upstream, inv, all_tags, suggested_tag_ids, current_doc>>

----------------------------------------------------------------------------
(* tool_analyze_document, lines 518-580 *)

\* document = await fetch_paperless_document(document_id)
tool_analyze_document_fetch(p) ==
    /\ pc[p] = "ana_fetch"
    /\ \E ok \in BOOLEAN :
        LET id == inv[p].document_id IN
        /\ ok => CanFetch(id)
        /\ Request(p, "GET", "documents/id", id, None, ok, IF ok THEN store[id] ELSE NoDoc)
        /\ IF ok
           THEN /\ document' = [document EXCEPT ![p] = store[id]]
                /\ pc' = [pc EXCEPT ![p] = "ana_tags"]
                /\ UNCHANGED result
           ELSE /\ Raise(p, HTTPException("Error fetching document"))
                /\ UNCHANGED document
    /\ UNCHANGED <<upstream, inv, all_tags, suggested_tag_ids, update_data, current_doc>>

\* The tag listing, the matching, and either the call of
\* update_paperless_document or the result.
tool_analyze_document_tags(p) ==
    /\ pc[p] = "ana_tags"
    /\ \E ok \in BOOLEAN :
        /\ Request(p, "GET", "tags", 0, None, ok, tagList)
        /\ IF ok
           THEN LET ids == SuggestedTagIds(tagList, document[p].title,
                                           document[p].content)
                IN
                /\ all_tags' = [all_tags EXCEPT ![p] = tagList]
                /\ suggested_tag_ids' = [suggested_tag_ids EXCEPT ![p] = ids]
                /\ IF inv[p].update_automatically /\ ids # <<>>
                   THEN /\ \E new_tags \in NewTagLists(document[p].tags, ids) :
                              update_data' = [update_data EXCEPT ![p] =
                                                 [tags |-> new_tags]]
                        /\ pc' = [pc EXCEPT ![p] = "upd_fetch"]
                        /\ UNCHANGED result
                   ELSE /\ Return(p,
                              [success |-> TRUE,
                               document_id |-> inv[p].document_id,
                               document_title |-> document[p].title,
                               suggested_tags |-> SuggestedTagNames(tagList, ids),
                               suggested_tag_ids |-> ids,
                               tags_updated |-> inv[p].update_automatically,
                               message |-> "Document analyzed successfully"])
                        /\ UNCHANGED update_data
           ELSE /\ Raise(p, HTTPException("Error fetching tags"))
                /\ UNCHANGED <<all_tags, suggested_tag_ids, update_data>>
    /\ UNCHANGED <<upstream, inv, document, current_doc>>

----------------------------------------------------------------------------
(* tool_trigger_workflow, lines 404-450 *)

\* document = await fetch_paperless_document(document_id)
tool_trigger_workflow_fetch(p) ==
    /\ pc[p] = "tw_fetch"
    /\ \E ok \in BOOLEAN :
        LET id == inv[p].document_id IN
        /\ ok => CanFetch(id)
        /\ Request(p, "GET", "documents/id", id, None, ok, IF ok THEN store[id] ELSE NoDoc)
        /\ IF ok
           THEN /\ document' = [document EXCEPT ![p] = store[id]]
                /\ pc' = [pc EXCEPT ![p] = "tw_post"]
                /\ UNCHANGED result
           ELSE /\ Raise(p, HTTPException("Error fetching document"))
                /\ UNCHANGED document
    /\ UNCHANGED <<upstream, inv, all_tags, suggested_tag_ids, update_data, current_doc>>

\* datetime.datetime.now().isoformat(): the reading of the clock at the call,
\* as text.
Timestamps == {"2024-01-01T00:00:00", "2024-01-01T00:00:01"}

\* The payload with additional_data whenever the argument is not None.
WorkflowPayloadNotNone(doc, additional_data, now) ==
    LET keys == {"document", "timestamp"}
                \cup (IF additional_data # None THEN {"additional_data"} ELSE {})
    IN  [k \in keys |->
            CASE k = "document" -> doc
              [] k = "timestamp" -> now
              [] k = "additional_data" -> Val(additional_data)]

\* payload = {"document": ..., "timestamp": ...}, plus "additional_data" when
\* the argument is truthy.
WorkflowPayload(doc, additional_data, now) ==
    LET keys == {"document", "timestamp"}
                \cup (IF TruthySeq(additional_data) THEN {"additional_data"} ELSE {})
    IN  [k \in keys |->
            CASE k = "document" -> doc
              [] k = "timestamp" -> now
              [] k = "additional_data" -> Val(additional_data)]

\* result = await trigger_n8n_workflow(workflow_id, payload)
tool_trigger_workflow_post(p) ==
    /\ pc[p] = "tw_post"
    /\ \E ok \in BOOLEAN, now \in Timestamps :
        LET payload == WorkflowPayload(document[p], inv[p].additional_data, now)
            answer == [executed |-> inv[p].workflow_id]
        IN
        /\ Request(p, "POST", "workflows/id/trigger", inv[p].workflow_id,
                   Some(payload), ok, answer)
        /\ IF ok
           THEN Return(p, [success |-> TRUE, workflow_id |-> inv[p].workflow_id,
                           document_id |-> inv[p].document_id, result |-> answer])
           ELSE Raise(p, HTTPException("Error triggering workflow"))
    /\ UNCHANGED <<upstream, inv, document, all_tags, suggested_tag_ids, update_data,
                   current_doc>>

----------------------------------------------------------------------------
(* tool_search_similar_documents, lines 590-639 *)

\* reference_doc = await fetch_paperless_document(document_id)
tool_search_similar_documents_fetch(p) ==
    /\ pc[p] = "sim_fetch"
    /\ \E ok \in BOOLEAN :
        LET id == inv[p].document_id IN
        /\ ok => CanFetch(id)
        /\ Request(p, "GET", "documents/id", id, None, ok, IF ok THEN store[id] ELSE NoDoc)
        /\ IF ok
           THEN /\ document' = [document EXCEPT ![p] = store[id]]
                /\ pc' = [pc EXCEPT ![p] = "sim_list"]
                /\ UNCHANGED result
           ELSE /\ Raise(p, HTTPException("Error fetching document"))
                /\ UNCHANGED document
    /\ UNCHANGED <<upstream, inv, all_tags, suggested_tag_ids, update_data, current_doc>>

\* The query of the similarity search: fetch_paperless_documents(
\*   correspondent_id=..., document_type_id=..., limit=max_results + 1)
SimilarParams(reference_doc, max_results) ==
    ListParams(None, None, reference_doc.correspondent, reference_doc.document_type,
               None, None, max_results + 1)

\* The filtered listing, the removal of the reference document and the cut.
tool_search_similar_documents_list(p) ==
    /\ pc[p] = "sim_list"
    /\ LET params == SimilarParams(document[p], inv[p].max_results) IN
       \/ \E similar_docs \in UpstreamList(params) :
            /\ Request(p, "GET", "documents", 0, Some(params), TRUE, similar_docs)
            /\ Return(p, [success |-> TRUE,
                          reference_document_id |-> inv[p].document_id,
                          similar_documents |->
                              SimilarDocs(similar_docs, inv[p].document_id,
                                          inv[p].max_results),
                          similarity_criteria |->
                              [correspondent_id |-> document[p].correspondent,
                               document_type |-> document[p].document_type,
                               tags |-> document[p].tags]])
       \/ /\ Request(p, "GET", "documents", 0, Some(params), FALSE, <<>>)
          /\ Raise(p, HTTPException("Error fetching documents"))
    /\ UNCHANGED <<upstream, inv, document, all_tags, suggested_tag_ids, update_data,
                   current_doc>>

----------------------------------------------------------------------------
(* Resources, lines 299-391 *)

get_documents(p) ==
    /\ pc[p] = "documents"
    /\ LET i == inv[p]
           params == ListParams(i.query, i.tag_id, i.correspondent_id,
                                i.document_type_id, i.created_after,
                                i.created_before, i.limit)
       IN
       \/ \E documents \in UpstreamList(params) :
            /\ Request(p, "GET", "documents", 0, Some(params), TRUE, documents)
            /\ Return(p, [documents |-> documents])
       \/ /\ Request(p, "GET", "documents", 0, Some(params), FALSE, <<>>)
          /\ Raise(p, HTTPException("Error fetching documents"))
    /\ UNCHANGED <<upstream, inv, document, all_tags, suggested_tag_ids, update_data,
                   current_doc>>

get_document(p) ==
    /\ pc[p] = "document"
    /\ \E ok \in BOOLEAN :
        LET id == inv[p].document_id IN
        /\ ok => CanFetch(id)
        /\ Request(p, "GET", "documents/id", id, None, ok, IF ok THEN store[id] ELSE NoDoc)
        /\ IF ok
           THEN Return(p, [document |-> Some(store[id])])
           ELSE Raise(p, HTTPException("Error fetching document"))
    /\ UNCHANGED <<upstream, inv, document, all_tags, suggested_tag_ids, update_data,
                   current_doc>>

\* A listing that sends its request with requests.post.
ListingPost(p, name, url, listing, detail) ==
    /\ pc[p] = name
    /\ \E ok \in BOOLEAN :
        /\ Request(p, "POST", url, 0, None, ok, listing)
        /\ IF ok
           THEN Return(p, [k \in {name} |-> listing])
           ELSE Raise(p, HTTPException(detail))
    /\ UNCHANGED <<upstream, inv, document, all_tags, suggested_tag_ids, update_data,
                   current_doc>>

\* The four listings that take no argument differ in endpoint, result key and
\* error text only.
Listing(p, name, url, listing, detail) ==
    /\ pc[p] = name
    /\ \E ok \in BOOLEAN :
        /\ Request(p, "GET", url, 0, None, ok, listing)
        /\ IF ok
           THEN Return(p, [k \in {name} |-> listing])
           ELSE Raise(p, HTTPException(detail))
    /\ UNCHANGED <<upstream, inv, document, all_tags, suggested_tag_ids, update_data,
                   current_doc>>

get_tags(p) == Listing(p, "tags", "tags", tagList, "Error fetching tags")

get_correspondents(p) ==
    Listing(p, "correspondents", "correspondents", Correspondents,
            "Error fetching correspondents")

get_document_types(p) ==
    Listing(p, "document_types", "document_types", DocumentTypes,
            "Error fetching document types")

get_workflows(p) ==
    Listing(p, "workflows", "workflows", Workflows, "Error fetching workflows")

----------------------------------------------------------------------------
(* Invocations *)

\* The first step of each handler.
FirstStep(name) ==
    CASE name = "update_document_tags" -> "udt_fetch"
      [] name = "analyze_document" -> "ana_fetch"
      [] name = "trigger_workflow" -> "tw_fetch"
      [] name = "search_similar_documents" -> "sim_fetch"
      [] name = "update_paperless_document" -> "upd_fetch"
      [] name = "none" -> "idle"
      [] OTHER -> name

NoCall == [name |-> "none"]

UpdateTagsCall(document_id, add_tags, remove_tags) ==
    [name |-> "update_document_tags", document_id |-> document_id,
     add_tags |-> add_tags, remove_tags |-> remove_tags]

AnalyzeCall(document_id, update_automatically) ==
    [name |-> "analyze_document", document_id |-> document_id,
     update_automatically |-> update_automatically]

TriggerCall(workflow_id, document_id, additional_data) ==
    [name |-> "trigger_workflow", workflow_id |-> workflow_id,
     document_id |-> document_id, additional_data |-> additional_data]

SimilarCall(document_id, max_results) ==
    [name |-> "search_similar_documents", document_id |-> document_id,
     max_results |-> max_results]

DocumentsCall(query, tag_id, correspondent_id, document_type_id, created_after, created_before, limit) ==
    [name |-> "documents", query |-> query, tag_id |-> tag_id,
     correspondent_id |-> correspondent_id, document_type_id |-> document_type_id,
     created_after |-> created_after, created_before |-> created_before,
     limit |-> limit]

DocumentCall(document_id) == [name |-> "document", document_id |-> document_id]

ListingCall(name) == [name |-> name]

\* update_paperless_document called on its own.
UpdateCall(document_id, data) ==
    [name |-> "update_paperless_document", document_id |-> document_id,
     update_data |-> data]

\* The locals of every invocation before its first step.
InitLocals ==
    /\ pc = [p \in Procs |-> FirstStep(inv[p].name)]
    /\ document = [p \in Procs |-> NoDoc]
    /\ all_tags = [p \in Procs |-> <<>>]
    /\ suggested_tag_ids = [p \in Procs |-> <<>>]
    /\ update_data = [p \in Procs |->
            IF inv[p].name = "update_paperless_document"
            THEN inv[p].update_data ELSE <<>>]
    /\ current_doc = [p \in Procs |-> NoDoc]
    /\ reqs = [p \in Procs |-> <<>>]
    /\ result = [p \in Procs |-> <<>>]

----------------------------------------------------------------------------
(* Spec: two invocations of any resource or tool against one store *)

\* An identifier no stored document has.
MissingId == NumDocs + 1

MainTags == <<Tag(1, <<"a">>), Tag(2, <<"B">>)>>

MainStores ==
    {[d \in {1, 2} |->
        IF d = 1 THEN Doc(1, <<"A", "b">>, <<>>, tags, Some(1), None)
                 ELSE Doc(2, <<"b">>, <<"a">>, <<2>>, Some(1), None)]
     : tags \in {<<>>, <<1>>}}

\* additional_data: absent, the empty dict, a dict with one entry.
AdditionalData == {None, Some(<<>>), Some(<<[key |-> "note", val |-> 1]>>)}

MainCalls ==
    {UpdateTagsCall(1, a, r) : a \in {None, Some(<<1>>), Some(<<2>>)},
                               r \in {None, Some(<<1>>)}}
    \cup {AnalyzeCall(1, u) : u \in BOOLEAN}
    \cup {TriggerCall(1, 1, x) : x \in AdditionalData}
    \cup {SimilarCall(1, 1)}
    \cup {DocumentsCall(None, None, Some(1), None, None, None, 1)}
    \cup {DocumentCall(d) : d \in {1, MissingId}}
    \cup {ListingCall(n) : n \in {"tags", "correspondents", "document_types",
                                  "workflows"}}

Init ==
    /\ store \in MainStores
    /\ tagList = MainTags
    /\ inv \in [Procs -> MainCalls]
    /\ InitLocals

Next ==
    \E p \in Procs :
        \/ tool_update_document_tags(p)
        \/ update_paperless_document_fetch(p)
        \/ update_paperless_document_put(p)
        \/ tool_analyze_document_fetch(p)
        \/ tool_analyze_document_tags(p)
        \/ tool_trigger_workflow_fetch(p)
        \/ tool_trigger_workflow_post(p)
        \/ tool_search_similar_documents_fetch(p)
        \/ tool_search_similar_documents_list(p)
        \/ get_documents(p)
        \/ get_document(p)
        \/ get_tags(p)
        \/ get_correspondents(p)
        \/ get_document_types(p)
        \/ get_workflows(p)

Spec == Init /\ [][Next]_vars

----------------------------------------------------------------------------
(* SpecUpdate: update_paperless_document called on its own, twice at once *)

UpdateStores ==
    {[d \in {1} |-> Doc(1, <<"A">>, <<>>, tags, Some(5), None)]
     : tags \in {<<1, 2>>, <<>>}}

\* Partial updates: <<>> is the empty dict.
UpdatePayloads ==
    {<<>>,
     [tags |-> <<1, 2, 3>>],
     [title |-> <<"b">>],
     [title |-> <<"b">>, tags |-> <<>>],
     [correspondent |-> None]}

InitUpdate ==
    /\ store \in UpdateStores
    /\ tagList = MainTags
    /\ inv \in [Procs -> {UpdateCall(1, u) : u \in UpdatePayloads}]
    /\ InitLocals

NextUpdate ==
    \E p \in Procs :
        \/ update_paperless_document_fetch(p)
        \/ update_paperless_document_put(p)

SpecUpdate == InitUpdate /\ [][NextUpdate]_vars

----------------------------------------------------------------------------
(* Reading the request log *)

LastReq(p) == reqs[p][Len(reqs[p])]

\* Invocation p has issued a request of this method to this endpoint.
Issued(p, method, url) ==
    \E i \in DOMAIN reqs[p] : reqs[p][i].method = method /\ reqs[p][i].url = url

\* The step just taken by p was a PUT the upstream accepted.
PutSucceeded(p) ==
    /\ Len(reqs'[p]) = Len(reqs[p]) + 1
    /\ reqs'[p][Len(reqs'[p])].method = "PUT"
    /\ reqs'[p][Len(reqs'[p])].ok

----------------------------------------------------------------------------
(* C1 *)

\* C1: update_paperless_document writes a shallow merge. In every step in
\* which its PUT succeeds, with D the document it fetched and U the partial
\* update, the PUT body and the document stored afterwards have exactly the
\* keys of D and U, with U[k] for every key of U and D[k] for every other key.
C1_MergePreservesUntouched ==
    [][\A p \in Procs :
        PutSucceeded(p) =>
            LET D == Val(reqs[p][Len(reqs[p])].resp)
                U == update_data[p]
                B == Val(reqs'[p][Len(reqs'[p])].body)
                S == store'[inv[p].document_id]
            IN  /\ reqs[p][Len(reqs[p])].method = "GET"
                /\ S = B
                /\ DOMAIN S = DOMAIN D \cup DOMAIN U
                /\ \A k \in DOMAIN S :
                        S[k] = IF k \in DOMAIN U THEN U[k] ELSE D[k]]_vars

\* The example of the specification: {title: "A", tags: [1,2], correspondent: 5}
\* updated with {tags: [1,2,3]} has been written while another call had
\* changed nothing yet.
C1_Witness ==
    \E p \in Procs :
        /\ pc[p] = "done"
        /\ inv[p].name = "update_paperless_document"
        /\ inv[p].update_data = [tags |-> <<1, 2, 3>>]
        /\ Len(reqs[p]) = 2 /\ LastReq(p).method = "PUT" /\ LastReq(p).ok
        /\ Val(reqs[p][1].resp) = Doc(1, <<"A">>, <<>>, <<1, 2>>, Some(5), None)
        /\ store[1] = Doc(1, <<"A">>, <<>>, <<1, 2, 3>>, Some(5), None)

----------------------------------------------------------------------------
(* C2 *)

\* Invocation p is a tag update one of whose document fetches failed.
FetchFailed(p) ==
    \E i \in DOMAIN reqs[p] :
        /\ reqs[p][i].method = "GET"
        /\ reqs[p][i].url = "documents/id"
        /\ ~reqs[p][i].ok

\* C2: when a document fetch of tool_update_document_tags fails, the
\* invocation has returned a failure result (success false) that carries the
\* document id and an error message, and its request log holds no PUT.
C2_FetchFailureAbortsBeforeWrite ==
    \A p \in Procs :
        (inv[p].name = "update_document_tags" /\ FetchFailed(p)) =>
            /\ pc[p] = "done"
            /\ DOMAIN result[p] = {"success", "error", "document_id"}
            /\ result[p].success = FALSE
            /\ result[p].document_id = inv[p].document_id
            /\ result[p].error = "Error fetching document"
            /\ ~Issued(p, "PUT", "documents/id")
            /\ ~LastReq(p).ok

\* The tool's own fetch succeeded and the fetch inside
\* update_paperless_document failed.
C2_Witness ==
    \E p \in Procs :
        /\ inv[p].name = "update_document_tags"
        /\ Len(reqs[p]) = 2
        /\ reqs[p][1].ok /\ ~reqs[p][2].ok
        /\ pc[p] = "done" /\ result[p].success = FALSE

----------------------------------------------------------------------------
(* C3 *)

\* Invocation p is a tag update that only adds the one tag t.
AddsOnly(p, t) ==
    /\ inv[p].name = "update_document_tags"
    /\ inv[p].add_tags = Some(<<t>>)
    /\ inv[p].remove_tags = None

\* Invocation p has returned success.
Succeeded(p) ==
    /\ pc[p] = "done"
    /\ "success" \in DOMAIN result[p]
    /\ result[p].success

\* The tag list a tag update that only adds t computes from its own first
\* snapshot: the snapshot's tags, with t appended when absent.
OwnTags(p, t) ==
    LET seen == Val(reqs[p][1].resp).tags
    IN  IF t \in Range(seen) THEN seen ELSE Append(seen, t)

\* C3: the last write wins. When two tag updates of one document, adding
\* different tags, have both returned success, the stored tag list is the
\* list one of the two computed from its own first snapshot: the earlier
\* write is replaced, never merged with the later one.
C3_LastWriteWins ==
    \A p, q \in Procs : \A a, b \in 1..MaxTags :
        (/\ p # q /\ a # b
         /\ AddsOnly(p, a) /\ AddsOnly(q, b)
         /\ inv[p].document_id = inv[q].document_id
         /\ Succeeded(p) /\ Succeeded(q)) =>
            store[inv[p].document_id].tags \in {OwnTags(p, a), OwnTags(q, b)}

\* The lost update: both invocations returned success, q's result reports
\* its tag b as written, and the stored document lacks b.
C3_Witness ==
    \E p, q \in Procs : \E a, b \in 1..MaxTags :
        /\ p # q /\ a # b
        /\ AddsOnly(p, a) /\ AddsOnly(q, b)
        /\ inv[p].document_id = inv[q].document_id
        /\ Succeeded(p) /\ Succeeded(q)
        /\ b \in Range(result[q].updated_tags)
        /\ a \in Range(result[p].updated_tags)
        /\ b \notin Range(store[inv[p].document_id].tags)

----------------------------------------------------------------------------
(* SpecAnalyze: one invocation of tool_analyze_document, any small tag *)
(* listing and document text                                           *)

\* Tag names: an empty one, two that differ in case only, a longer one.
TagNames == {<<>>, <<"a">>, <<"A">>, <<"b", "a">>}

\* Tag listings: identifiers are unique and no two tags have the same name
\* (names that differ in case are different names).
TagLists ==
    UNION {{[i \in 1..n |-> Tag(i, names[i])]
            : names \in {f \in [1..n -> TagNames] :
                            \A i, j \in 1..n : i # j => f[i] # f[j]}}
           : n \in 0..MaxTags}

AnalyzeStores ==
    {[d \in {1} |-> Doc(1, title, content, tags, Some(1), None)]
     : title \in SeqsUpTo(Chars, MaxTextLen),
       content \in {<<>>, <<"b">>},
       tags \in {<<>>, <<1>>}}

InitAnalyze ==
    /\ store \in AnalyzeStores
    /\ tagList \in TagLists
    /\ inv \in {[p \in Procs |-> IF p = 1 THEN AnalyzeCall(1, u) ELSE NoCall]
                : u \in BOOLEAN}
    /\ InitLocals

NextAnalyze ==
    \E p \in Procs :
        \/ tool_analyze_document_fetch(p)
        \/ tool_analyze_document_tags(p)
        \/ update_paperless_document_fetch(p)
        \/ update_paperless_document_put(p)

SpecAnalyze == InitAnalyze /\ [][NextAnalyze]_vars

\* Invocation p is a tool_analyze_document that returned success.
Analyzed(p) == inv[p].name = "analyze_document" /\ Succeeded(p)

\* The tag's lower-cased name is a substring of the lower-cased title or of
\* the lower-cased content.
NameOccurs(tag, doc) ==
    \/ Contains(Lower(doc.title), Lower(tag.name))
    \/ Contains(Lower(doc.content), Lower(tag.name))

\* The position of x in the sequence s (0 when absent).
IndexOf(s, x) == IF x \in Range(s) THEN CHOOSE i \in DOMAIN s : s[i] = x ELSE 0

----------------------------------------------------------------------------
(* C4 *)

\* C4: in a successful tool_analyze_document, a tag of the upstream listing
\* has its identifier in suggested_tag_ids exactly when its lower-cased name
\* is a substring of the lower-cased title or content, for every tag listing.
C4_AllMatchesSuggested ==
    \A p \in Procs :
        Analyzed(p) =>
            \A i \in DOMAIN all_tags[p] :
                (all_tags[p][i].id \in Range(result[p].suggested_tag_ids))
                    <=> NameOccurs(all_tags[p][i], Val(reqs[p][1].resp))

----------------------------------------------------------------------------
(* C5 *)

\* C5: in a successful tool_analyze_document the suggestions follow the
\* upstream listing order: of two suggested tags the earlier in the listing
\* comes first in suggested_tag_ids, and suggested_tags holds, position by
\* position, the names of the tags in suggested_tag_ids.
C5_SuggestionsInListingOrder ==
    \A p \in Procs :
        Analyzed(p) =>
            LET ids == result[p].suggested_tag_ids
                names == result[p].suggested_tags
                tags == all_tags[p]
            IN  /\ \A i, j \in DOMAIN tags :
                        (/\ i < j
                         /\ tags[i].id \in Range(ids)
                         /\ tags[j].id \in Range(ids)) =>
                            IndexOf(ids, tags[i].id) < IndexOf(ids, tags[j].id)
                /\ Len(names) = Len(ids)
                /\ \A k \in DOMAIN ids :
                        \E i \in DOMAIN tags :
                            tags[i].id = ids[k] /\ tags[i].name = names[k]

----------------------------------------------------------------------------
(* C6 *)

\* Every upstream request of invocation p succeeded.
AllRequestsOk(p) == \A i \in DOMAIN reqs[p] : reqs[p][i].ok

\* The sequence s holds no element twice.
NoDuplicates(s) == \A i, j \in DOMAIN s : i # j => s[i] # s[j]

\* Invocation p has issued a PUT for its document whose tags are, as a set,
\* the fetched document's tags together with the suggested ones, each once.
WroteUnion(p) ==
    \E i \in DOMAIN reqs[p] :
        /\ reqs[p][i].method = "PUT"
        /\ reqs[p][i].url = "documents/id"
        /\ reqs[p][i].id = inv[p].document_id
        /\ LET written == Val(reqs[p][i].body).tags
               existing == Val(reqs[p][1].resp).tags
           IN  /\ Range(written) = Range(existing) \cup Range(suggested_tag_ids[p])
               /\ NoDuplicates(written)

\* C6 as claimed: whenever tool_analyze_document runs with
\* update_automatically set and every upstream call succeeds, a PUT is issued
\* whose tags are the union of the existing and the suggested identifiers.
C6_AlwaysWritesUnion ==
    \A p \in Procs :
        (Analyzed(p) /\ inv[p].update_automatically /\ AllRequestsOk(p)) =>
            WroteUnion(p)

\* C6 as amended: with update_automatically set, every upstream call
\* succeeding and at least one tag suggested, exactly one PUT is issued and
\* its tags are, as a set, the union of the existing and the suggested
\* identifiers with none twice; with no tag suggested no PUT is issued.
C6_WritesUnionWhenSuggested ==
    \A p \in Procs :
        (Analyzed(p) /\ inv[p].update_automatically /\ AllRequestsOk(p)) =>
            IF suggested_tag_ids[p] # <<>>
            THEN /\ WroteUnion(p)
                 /\ Cardinality({i \in DOMAIN reqs[p] : reqs[p][i].method = "PUT"}) = 1
            ELSE ~Issued(p, "PUT", "documents/id")

\* A suggested tag the document already has and one it has not were written.
C6_Witness ==
    \E p \in Procs :
        /\ Analyzed(p) /\ inv[p].update_automatically /\ AllRequestsOk(p)
        /\ Val(reqs[p][1].resp).tags = <<1>>
        /\ Range(suggested_tag_ids[p]) = {1, 2}
        /\ Range(store[1].tags) = {1, 2}
        /\ Len(store[1].tags) = 2

----------------------------------------------------------------------------
(* C7 *)

\* The document invocation p fetched has an empty title and an empty content.
EmptyText(p) ==
    /\ Val(reqs[p][1].resp).title = <<>>
    /\ Val(reqs[p][1].resp).content = <<>>

\* C7 as claimed: a document with empty title and content yields no
\* suggestion, whatever the tag listing.
C7_EmptyTextNoSuggestions ==
    \A p \in Procs :
        (Analyzed(p) /\ EmptyText(p)) =>
            /\ result[p].suggested_tag_ids = <<>>
            /\ result[p].suggested_tags = <<>>

\* C7 as amended: a document with empty title and content yields no
\* suggestion for every tag listing in which no tag has an empty name.
C7_EmptyTextNoSuggestionsForNamedTags ==
    \A p \in Procs :
        (/\ Analyzed(p) /\ EmptyText(p)
         /\ \A i \in DOMAIN all_tags[p] : all_tags[p][i].name # <<>>) =>
            /\ result[p].suggested_tag_ids = <<>>
            /\ result[p].suggested_tags = <<>>

\* An empty document analysed against a full listing of named tags.
C7_Witness ==
    \E p \in Procs :
        /\ Analyzed(p) /\ EmptyText(p)
        /\ Len(all_tags[p]) = 3
        /\ \A i \in DOMAIN all_tags[p] : all_tags[p][i].name # <<>>
        /\ result[p].suggested_tag_ids = <<>>

----------------------------------------------------------------------------
(* SpecSimilar: one invocation of tool_search_similar_documents against a *)
(* store whose documents have any correspondent and document type         *)

\* Correspondent and document type of a document: absent, or an identifier.
Links == {None, Some(1)}

SimilarStores ==
    {[d \in 1..NumDocs |-> Doc(d, <<"a">>, <<>>, <<>>, c[d], t[d])]
     : c \in [1..NumDocs -> Links], t \in [1..NumDocs -> Links]}

\* max_results is an int the handler does not validate.
MaxResultsArgs == (0 - 1)..MaxResults

InitSimilar ==
    /\ store \in SimilarStores
    /\ tagList = MainTags
    /\ inv \in {[p \in Procs |-> IF p = 1 THEN SimilarCall(d, m) ELSE NoCall]
                : d \in 1..NumDocs, m \in MaxResultsArgs}
    /\ InitLocals

NextSimilar ==
    \E p \in Procs :
        \/ tool_search_similar_documents_fetch(p)
        \/ tool_search_similar_documents_list(p)

SpecSimilar == InitSimilar /\ [][NextSimilar]_vars

\* Invocation p is a tool_search_similar_documents that returned success.
Searched(p) == inv[p].name = "search_similar_documents" /\ Succeeded(p)

\* a is b with some elements left out, the others in b's order.
IsSubsequence(a, b) ==
    \E f \in [DOMAIN a -> DOMAIN b] :
        /\ \A i, j \in DOMAIN a : i < j => f[i] < f[j]
        /\ \A i \in DOMAIN a : a[i] = b[f[i]]

\* The three properties of the similarity result.
SimilarResultOk(p) ==
    LET found == result[p].similar_documents
        listed == Val(reqs[p][2].resp)
    IN  /\ \A i \in DOMAIN found : found[i].id # inv[p].document_id
        /\ Len(found) <= inv[p].max_results
        /\ IsSubsequence(found, listed)

----------------------------------------------------------------------------
(* C8 *)

\* C8 as claimed: for every reference document, upstream list response and
\* max_results, similar_documents holds no document with the reference id,
\* has at most max_results elements and keeps the upstream order.
C8_SimilarExcludesAndCaps ==
    \A p \in Procs : Searched(p) => SimilarResultOk(p)

\* C8 as amended: the same for every max_results >= 0; then the result is
\* moreover the first max_results of the other documents of the response.
C8_SimilarExcludesAndCapsNonNegative ==
    \A p \in Procs :
        (Searched(p) /\ inv[p].max_results >= 0) =>
            /\ SimilarResultOk(p)
            /\ LET listed == Val(reqs[p][2].resp)
                   others == {i \in DOMAIN listed : listed[i].id # inv[p].document_id}
               IN  Len(result[p].similar_documents) =
                        IF Cardinality(others) < inv[p].max_results
                        THEN Cardinality(others) ELSE inv[p].max_results

\* The example of the specification: the response lists the reference
\* document among three, and max_results cuts the two others down to one.
C8_Witness ==
    \E p \in Procs :
        /\ Searched(p) /\ inv[p].max_results = 1
        /\ Len(Val(reqs[p][2].resp)) = 2
        /\ \E i \in DOMAIN Val(reqs[p][2].resp) :
                Val(reqs[p][2].resp)[i].id = inv[p].document_id
        /\ Len(result[p].similar_documents) = 1

----------------------------------------------------------------------------
(* C9 *)

\* C9: the list query of tool_search_similar_documents carries a
\* correspondent filter and a document-type filter, so that every document
\* returned shares the reference document's correspondent and document type,
\* also when the reference document has none.
C9_SimilarSharesMetadata ==
    \A p \in Procs :
        Searched(p) =>
            LET reference == Val(reqs[p][1].resp)
                params == Val(reqs[p][2].body)
                found == result[p].similar_documents
            IN  /\ {"correspondent__id", "document_type__id"} \subseteq DOMAIN params
                /\ \A i \in DOMAIN found :
                        /\ found[i].correspondent = reference.correspondent
                        /\ found[i].document_type = reference.document_type

----------------------------------------------------------------------------
(* C10 *)

Tools ==
    {"trigger_workflow", "update_document_tags", "analyze_document",
     "search_similar_documents"}

Resources ==
    {"documents", "document", "tags", "correspondents", "document_types",
     "workflows"}

\* C10: no handler ends by raising; every finished invocation holds a
\* structured result that carries an error description exactly when one of
\* its upstream requests failed (for a tool: exactly when success is false)
\* and its data otherwise; and a failed invocation has changed nothing that
\* another invocation reads: every request of it that succeeded is a GET.
C10_StructuredResults ==
    \A p \in Procs :
        /\ pc[p] # "raised"
        /\ pc[p] = "done" =>
            /\ ("error" \in DOMAIN result[p]) <=> ~AllRequestsOk(p)
            /\ inv[p].name \in Tools =>
                    /\ "success" \in DOMAIN result[p]
                    /\ result[p].success <=> "error" \notin DOMAIN result[p]
            /\ inv[p].name \in Resources =>
                    ("error" \in DOMAIN result[p] \/ inv[p].name \in DOMAIN result[p])
            /\ "error" \in DOMAIN result[p] =>
                    /\ ~LastReq(p).ok
                    /\ \A i \in DOMAIN reqs[p] :
                            reqs[p][i].ok => reqs[p][i].method = "GET"

\* An analysis whose PUT, its fourth upstream request, failed has returned a
\* failure result, and the other invocation, a tag update, succeeded.
C10_Witness ==
    \E p, q \in Procs :
        /\ p # q
        /\ inv[p].name = "analyze_document" /\ pc[p] = "done"
        /\ Len(reqs[p]) = 4 /\ LastReq(p).method = "PUT" /\ ~LastReq(p).ok
        /\ result[p].success = FALSE
        /\ inv[q].name = "update_document_tags" /\ Succeeded(q)

----------------------------------------------------------------------------
(* C11 *)

\* The resources that return a collection.
ListingResources ==
    {"documents", "tags", "correspondents", "document_types", "workflows"}

\* C11: a listing resource never omits its collection field. Every finished
\* invocation of documents, tags, correspondents, document_types or workflows
\* holds a result with the field named after the resource; when its upstream
\* request failed the result is exactly that field, holding the empty list,
\* and an error field holding the error text.
C11_ListingFailureKeepsCollection ==
    \A p \in Procs :
        (inv[p].name \in ListingResources /\ pc[p] = "done") =>
            /\ inv[p].name \in DOMAIN result[p]
            /\ ~AllRequestsOk(p) =>
                    /\ DOMAIN result[p] = {"error", inv[p].name}
                    /\ result[p][inv[p].name] = <<>>

\* The document listing and the workflow listing have both failed.
C11_Witness ==
    \E p, q \in Procs :
        /\ inv[p].name = "documents" /\ inv[q].name = "workflows"
        /\ pc[p] = "done" /\ pc[q] = "done"
        /\ ~LastReq(p).ok /\ ~LastReq(q).ok
        /\ result[p] = [error |-> "Error fetching documents", documents |-> <<>>]
        /\ result[q] = [error |-> "Error fetching workflows", workflows |-> <<>>]

----------------------------------------------------------------------------
(* C12 *)

\* C12: a failed upstream request is the last request of its invocation.
\* Whenever a request of an invocation has failed, it is the final entry of
\* the invocation's request log, and the invocation has already returned a
\* result that carries the error: nothing is retried and no other request
\* follows, to either service.
C12_NoRequestAfterFailure ==
    \A p \in Procs : \A i \in DOMAIN reqs[p] :
        ~reqs[p][i].ok =>
            /\ i = Len(reqs[p])
            /\ pc[p] = "done"
            /\ "error" \in DOMAIN result[p]

\* An analysis whose third request, the fetch inside
\* update_paperless_document, failed after two that succeeded, and a workflow
\* trigger whose POST to the workflow service failed.
C12_Witness ==
    \E p, q \in Procs :
        /\ inv[p].name = "analyze_document" /\ pc[p] = "done"
        /\ Len(reqs[p]) = 3
        /\ reqs[p][1].ok /\ reqs[p][2].ok /\ ~reqs[p][3].ok
        /\ inv[q].name = "trigger_workflow" /\ pc[q] = "done"
        /\ Len(reqs[q]) = 2 /\ reqs[q][2].method = "POST" /\ ~reqs[q][2].ok

----------------------------------------------------------------------------
(* C13 *)

\* The step just taken by p was a PUT that failed.
PutFailedStep(p) ==
    /\ Len(reqs'[p]) = Len(reqs[p]) + 1
    /\ reqs'[p][Len(reqs'[p])].method = "PUT"
    /\ ~reqs'[p][Len(reqs'[p])].ok

\* Invocation q has written: one of its PUTs was accepted.
HasWritten(q) ==
    \E i \in DOMAIN reqs[q] : reqs[q][i].method = "PUT" /\ reqs[q][i].ok

\* C13: in every step in which the PUT of update_paperless_document, called
\* by tool_update_document_tags or tool_analyze_document, fails after the
\* fetch before it succeeded, the upstream state is left as it is, the
\* invocation has sent nothing but GETs before, and it returns a result with
\* success false; when no other invocation has written, the document stored
\* afterwards is the one the tool fetched first.
C13_FailedWriteLeavesDocument ==
    [][\A p \in Procs :
        (PutFailedStep(p) /\ inv[p].name \in {"update_document_tags", "analyze_document"}) =>
            /\ reqs[p][Len(reqs[p])].method = "GET" /\ reqs[p][Len(reqs[p])].ok
            /\ \A i \in DOMAIN reqs[p] : reqs[p][i].method = "GET"
            /\ upstream' = upstream
            /\ pc'[p] = "done"
            /\ "success" \in DOMAIN result'[p]
            /\ result'[p].success = FALSE
            /\ result'[p].document_id = inv[p].document_id
            /\ (\A q \in Procs \ {p} : ~HasWritten(q)) =>
                    store'[inv[p].document_id] = Val(reqs[p][1].resp)]_vars

\* A tag update that would have added tag 2 to a document without it: the
\* PUT carrying the new tag list failed, the tool returned success false and
\* the stored document is the one fetched.
C13_Witness ==
    \E p \in Procs :
        /\ inv[p].name = "update_document_tags" /\ pc[p] = "done"
        /\ Len(reqs[p]) = 3
        /\ LastReq(p).method = "PUT" /\ ~LastReq(p).ok
        /\ 2 \in Range(Val(LastReq(p).body).tags)
        /\ 2 \notin Range(Val(reqs[p][1].resp).tags)
        /\ store[inv[p].document_id] = Val(reqs[p][1].resp)
        /\ result[p].success = FALSE

----------------------------------------------------------------------------
(* SpecDocuments: one invocation of the documents resource with any *)
(* combination of absent, falsy and ordinary filter values          *)

\* query: absent, the empty string, a search word.
QueryArgs == {None, Some(<<>>), Some(<<"a">>)}

\* tag_id, correspondent_id, document_type_id: absent, 0, an identifier.
IdArgs == {None, Some(0), Some(1)}

\* created_after, created_before: absent, the empty string, a date.
DateArgs == {None, Some(<<>>), Some(<<"2", "0", "2", "4">>)}

\* limit is an int the resource does not validate.
LimitArgs == 0..MaxResults

InitDocuments ==
    /\ store \in MainStores
    /\ tagList = MainTags
    /\ inv \in {[p \in Procs |->
                    IF p = 1 THEN DocumentsCall(q, t, c, d, a, b, l) ELSE NoCall]
                : q \in QueryArgs, t \in IdArgs, c \in IdArgs, d \in IdArgs,
                  a \in DateArgs, b \in DateArgs, l \in LimitArgs}
    /\ InitLocals

NextDocuments == \E p \in Procs : get_documents(p)

SpecDocuments == InitDocuments /\ [][NextDocuments]_vars

\* The filter arguments of fetch_paperless_documents and the query parameter
\* each is sent as.
FilterFields ==
    {[arg |-> "query", param |-> "query"],
     [arg |-> "tag_id", param |-> "tags__id"],
     [arg |-> "correspondent_id", param |-> "correspondent__id"],
     [arg |-> "document_type_id", param |-> "document_type__id"],
     [arg |-> "created_after", param |-> "created__gte"],
     [arg |-> "created_before", param |-> "created__lte"]}

----------------------------------------------------------------------------
(* C14 *)

\* C14: the query of GET /documents/ carries page_size = limit, and for each
\* of the six filters its parameter exactly when the caller supplied a value
\* other than None (0 and the empty string included), with that value.
C14_FiltersPassedWhenPresent ==
    \A p \in Procs :
        (inv[p].name = "documents" /\ reqs[p] # <<>>) =>
            LET params == Val(reqs[p][1].body) IN
            /\ params["page_size"] = inv[p].limit
            /\ \A f \in FilterFields :
                /\ (f.param \in DOMAIN params) <=> (inv[p][f.arg] # None)
                /\ (f.param \in DOMAIN params) =>
                        params[f.param] = Val(inv[p][f.arg])

----------------------------------------------------------------------------
(* C15 *)

\* The step just taken was an upstream request of the resource invocation p.
ResourceStep(p) == inv[p].name \in Resources /\ reqs'[p] # reqs[p]

\* C15: resources are read-only. Every step of a resource invocation is its
\* one request, a GET; it leaves the upstream state, the arguments and locals
\* of every invocation and the log and result of every other invocation as
\* they were. The tags resource returns the upstream tag listing, so two
\* invocations of it between which the upstream has not changed return the
\* same tags.
C15_ResourcesReadOnly ==
    [][\A p \in Procs :
        ResourceStep(p) =>
            /\ Len(reqs'[p]) = 1
            /\ reqs'[p][1].method = "GET"
            /\ UNCHANGED upstream
            /\ UNCHANGED <<inv, document, all_tags, suggested_tag_ids, update_data,
                           current_doc>>
            /\ \A q \in Procs \ {p} :
                    pc'[q] = pc[q] /\ reqs'[q] = reqs[q] /\ result'[q] = result[q]
            /\ (inv[p].name = "tags" /\ reqs'[p][1].ok) =>
                    /\ result'[p] = [tags |-> tagList]
                    /\ \A q \in Procs \ {p} :
                            (inv[q].name = "tags" /\ pc[q] = "done" /\ AllRequestsOk(q)) =>
                                result[q].tags = result'[p].tags]_vars

\* The tags resource was invoked twice, both times with success, and returned
\* the same two tags.
C15_Witness ==
    \E p, q \in Procs :
        /\ p # q
        /\ inv[p].name = "tags" /\ inv[q].name = "tags"
        /\ pc[p] = "done" /\ pc[q] = "done"
        /\ AllRequestsOk(p) /\ AllRequestsOk(q)
        /\ Len(result[p].tags) = 2
        /\ result[p].tags = result[q].tags

----------------------------------------------------------------------------
(* SpecTags: one invocation of tool_update_document_tags with any small *)
(* tag list on the document and any add_tags / remove_tags              *)

\* Tag identifiers.
TagIds == 1..MaxTags

\* add_tags, remove_tags: absent, empty, or a short list that may name a tag
\* twice.
TagArgs == {None} \cup {Some(s) : s \in SeqsUpTo(TagIds, 2)}

\* The tags of a stored document: no identifier twice.
StoredTags == {s \in SeqsUpTo(TagIds, 2) : \A i, j \in DOMAIN s : i # j => s[i] # s[j]}

TagsStores ==
    {[d \in {1} |-> Doc(1, <<"A">>, <<>>, tags, Some(1), None)] : tags \in StoredTags}

InitTags ==
    /\ store \in TagsStores
    /\ tagList = MainTags
    /\ inv \in {[p \in Procs |-> IF p = 1 THEN UpdateTagsCall(1, a, r) ELSE NoCall]
                : a \in TagArgs, r \in TagArgs}
    /\ InitLocals

NextTags ==
    \E p \in Procs :
        \/ tool_update_document_tags(p)
        \/ update_paperless_document_fetch(p)
        \/ update_paperless_document_put(p)

SpecTags == InitTags /\ [][NextTags]_vars

\* The list an Optional[list] argument stands for: None is no tag at all.
ArgList(o) == IF o = None THEN <<>> ELSE Val(o)

\* The elements of s outside the set drop, each at its first occurrence only,
\* in the order of s.
FirstOccurrences(s, drop) ==
    LET Keep(i) == s[i] \notin drop /\ \A j \in 1..(i - 1) : s[j] # s[i]
        idx == {i \in DOMAIN s : Keep(i)}
        Rank(i) == Cardinality({j \in idx : j <= i})
    IN  [k \in 1..Cardinality(idx) |-> s[CHOOSE i \in idx : Rank(i) = k]]

----------------------------------------------------------------------------
(* C16 *)

\* C16: when every upstream call of tool_update_document_tags succeeds, the
\* tags written (and stored, and reported as updated_tags) are the tags of
\* the fetched document that remove_tags does not name, in their order,
\* followed by the tags of add_tags that neither the document had nor
\* remove_tags names, each once, in the order of add_tags. As a set they are
\* (current \cup add_tags) \ remove_tags; a tag named in both arguments is
\* absent.
C16_TagArithmetic ==
    \A p \in Procs :
        (inv[p].name = "update_document_tags" /\ Succeeded(p)) =>
            LET current == Val(reqs[p][1].resp).tags
                add == ArgList(inv[p].add_tags)
                remove == Range(ArgList(inv[p].remove_tags))
                written == Val(LastReq(p).body).tags
                survivors == SelectSeq(current, LAMBDA t : t \notin remove)
                appended == FirstOccurrences(add, remove \cup Range(current))
            IN  /\ Len(reqs[p]) = 3 /\ LastReq(p).method = "PUT"
                /\ written = survivors \o appended
                /\ Range(written) = (Range(current) \cup Range(add)) \ remove
                /\ \A t \in Range(add) \cap remove : t \notin Range(written)
                /\ store[inv[p].document_id].tags = written
                /\ result[p].updated_tags = written

\* Tags [2, 1] with add_tags [3, 2] and remove_tags [2]: tag 2, named in both
\* arguments, is gone and the new tag 3 follows the surviving tag 1.
C16_Witness ==
    \E p \in Procs :
        /\ inv[p].name = "update_document_tags" /\ Succeeded(p)
        /\ Val(reqs[p][1].resp).tags = <<2, 1>>
        /\ inv[p].add_tags = Some(<<3, 2>>)
        /\ inv[p].remove_tags = Some(<<2>>)
        /\ store[inv[p].document_id].tags = <<1, 3>>

----------------------------------------------------------------------------
(* SpecRace: one tool_update_document_tags and, at the same time, another *)
(* writer of the same document that changes its title, correspondent or   *)
(* tags                                                                   *)

RacePayloads ==
    {[title |-> <<"b">>],
     [title |-> <<"b">>, tags |-> <<2>>],
     [correspondent |-> None],
     [tags |-> <<>>]}

RaceCalls ==
    {UpdateTagsCall(1, a, r) : a \in {None, Some(<<MaxTags>>)},
                               r \in {None, Some(<<1>>)}}

InitRace ==
    /\ store \in UpdateStores
    /\ tagList = MainTags
    /\ inv \in {[p \in Procs |-> IF p = 1 THEN c ELSE UpdateCall(1, u)]
                : c \in RaceCalls, u \in RacePayloads}
    /\ InitLocals

NextRace ==
    \E p \in Procs :
        \/ tool_update_document_tags(p)
        \/ update_paperless_document_fetch(p)
        \/ update_paperless_document_put(p)

SpecRace == InitRace /\ [][NextRace]_vars

\* The tag list the arguments of the tag update p ask for, from the list tags.
RequestedTags(p, tags) ==
    LET add == ArgList(inv[p].add_tags)
        remove == Range(ArgList(inv[p].remove_tags))
    IN  SelectSeq(tags, LAMBDA t : t \notin remove)
            \o FirstOccurrences(add, remove \cup Range(tags))

\* Invocation p is a tag update that has sent its PUT, after its two fetches.
TagUpdateWrote(p) ==
    /\ inv[p].name = "update_document_tags"
    /\ Len(reqs[p]) = 3
    /\ reqs[p][3].method = "PUT"

----------------------------------------------------------------------------
(* C17 *)

\* C17: tool_update_document_tags fetches the document twice before its
\* PUT, once itself and once inside update_paperless_document. The body it
\* writes has the tags the arguments ask for computed from the first
\* snapshot, and every other field from the second snapshot, whatever
\* another writer did between the two fetches.
C17_TagsFromFirstRestFromSecond ==
    \A p \in Procs :
        TagUpdateWrote(p) =>
            LET first == Val(reqs[p][1].resp)
                second == Val(reqs[p][2].resp)
                body == Val(reqs[p][3].body)
            IN  /\ reqs[p][1].method = "GET" /\ reqs[p][1].url = "documents/id"
                /\ reqs[p][2].method = "GET" /\ reqs[p][2].url = "documents/id"
                /\ reqs[p][1].id = inv[p].document_id
                /\ reqs[p][2].id = inv[p].document_id
                /\ DOMAIN body = DOMAIN second
                /\ body.tags = RequestedTags(p, first.tags)
                /\ \A k \in DOMAIN body \ {"tags"} : body[k] = second[k]

\* Another writer changed title and tags between the two fetches: the body
\* written is neither the first snapshot nor the second with the requested
\* tag change applied to it.
C17_Witness ==
    \E p \in Procs :
        /\ TagUpdateWrote(p) /\ Succeeded(p)
        /\ LET first == Val(reqs[p][1].resp)
               second == Val(reqs[p][2].resp)
               body == Val(reqs[p][3].body)
           IN  /\ first.title # second.title
               /\ body # [first EXCEPT !.tags = RequestedTags(p, first.tags)]
               /\ body # [second EXCEPT !.tags = RequestedTags(p, second.tags)]
               /\ store[inv[p].document_id] = body

----------------------------------------------------------------------------
(* C18 *)

\* The positions of the POSTs in the request log of invocation p.
Posts(p) == {i \in DOMAIN reqs[p] : reqs[p][i].method = "POST"}

\* C18: tool_trigger_workflow sends at most one POST, to the trigger endpoint
\* of its workflow, and only as its second request after a document fetch
\* that succeeded. The body holds the fetched document and a timestamp, and
\* additional_data, with the caller's value, exactly when the caller gave a
\* non-empty one. When the fetch fails there is no POST and the result is
\* success false with an error, the workflow_id and the document_id.
C18_TriggerOnceAfterFetch ==
    \A p \in Procs :
        inv[p].name = "trigger_workflow" =>
            /\ Cardinality(Posts(p)) <= 1
            /\ \A i \in Posts(p) :
                /\ i = 2
                /\ reqs[p][1].method = "GET" /\ reqs[p][1].url = "documents/id"
                /\ reqs[p][1].id = inv[p].document_id
                /\ reqs[p][1].ok
                /\ reqs[p][i].url = "workflows/id/trigger"
                /\ reqs[p][i].id = inv[p].workflow_id
                /\ LET body == Val(reqs[p][i].body)
                       extra == inv[p].additional_data
                   IN  /\ {"document", "timestamp"} \subseteq DOMAIN body
                       /\ body.document = Val(reqs[p][1].resp)
                       /\ body.timestamp \in Timestamps
                       /\ ("additional_data" \in DOMAIN body)
                            <=> (extra # None /\ Val(extra) # <<>>)
                       /\ ("additional_data" \in DOMAIN body) =>
                            body.additional_data = Val(extra)
            /\ (reqs[p] # <<>> /\ ~reqs[p][1].ok) =>
                /\ pc[p] = "done"
                /\ Posts(p) = {}
                /\ DOMAIN result[p] = {"success", "error", "workflow_id", "document_id"}
                /\ result[p].success = FALSE
                /\ result[p].workflow_id = inv[p].workflow_id
                /\ result[p].document_id = inv[p].document_id

\* One trigger, called with an empty additional_data, has posted the document
\* and a timestamp and nothing else; another, whose fetch failed, has
\* returned its failure result without a POST.
C18_Witness ==
    \E p, q \in Procs :
        /\ inv[p].name = "trigger_workflow" /\ Succeeded(p)
        /\ inv[p].additional_data = Some(<<>>)
        /\ DOMAIN Val(reqs[p][2].body) = {"document", "timestamp"}
        /\ inv[q].name = "trigger_workflow" /\ pc[q] = "done"
        /\ Len(reqs[q]) = 1 /\ ~reqs[q][1].ok
        /\ result[q].success = FALSE

----------------------------------------------------------------------------
(* C19 *)

\* C19: in every successful result of tool_analyze_document, tags_updated is
\* true exactly when the invocation issued a PUT for the document and the
\* PUT succeeded; with update_automatically false no PUT is issued, and with
\* no tag suggested tags_updated is not true.
C19_TagsUpdatedIffWritten ==
    \A p \in Procs :
        Analyzed(p) =>
            /\ result[p].tags_updated <=> HasWritten(p)
            /\ ~inv[p].update_automatically => ~Issued(p, "PUT", "documents/id")
            /\ result[p].suggested_tag_ids = <<>> => ~result[p].tags_updated

====
